---- MODULE Spec2Model ----
(***************************************************************************)
(* Model of setup_nba_lake.py: the provisioning-and-query pipeline run by  *)
(* main(), the remote services it calls (S3, Glue, Athena, the HTTP data   *)
(* source) and the record serializer convert_to_line_delimited_json.       *)
(***************************************************************************)
EXTENDS Integers, Sequences, FiniteSets, TLC

(* ---------------------------------------------------------------- bounds *)
\* greatest number of polls that may return a non-terminal state
MaxPolls == 3
\* greatest length of a string field of a record
MaxStrLen == 2
\* greatest number of records in a serialized collection
MaxRecords == 2
\* greatest number of records the HTTP fetch returns in a pipeline run
MaxFetched == 2
\* greatest number of rows in an Athena result set
MaxRows == 2

(* ------------------------------------------------------- optional values *)
\* Python's None / a present value, as sequences of length 0 / 1
NoneVal == << >>
Some(x) == << x >>
\* Python truthiness of an optional list: None and [] are falsy
Truthy(o) == o # NoneVal /\ o[1] # << >>

(* ------------------------------------------------------------ serializer *)
NL == "\n"
QUOTE == "\""
BSLASH == "\\"
Chars == {"a", "n", NL, QUOTE, BSLASH}

RECURSIVE SeqsUpTo(_, _)
SeqsUpTo(S, n) ==
    IF n = 0 THEN {<< >>}
    ELSE LET shorter == SeqsUpTo(S, n - 1)
         IN  shorter \cup {Append(s, x) : s \in {t \in shorter : Len(t) = n - 1}, x \in S}

Strings == SeqsUpTo(Chars, MaxStrLen)
Records == [Team : Strings]

\* json.dumps escaping of one character of a string
EscapeChar(c) ==
    IF c = NL THEN <<BSLASH, "n">>
    ELSE IF c = QUOTE THEN <<BSLASH, QUOTE>>
    ELSE IF c = BSLASH THEN <<BSLASH, BSLASH>>
    ELSE <<c>>

RECURSIVE EscapeString(_)
EscapeString(s) ==
    IF s = << >> THEN << >> ELSE EscapeChar(Head(s)) \o EscapeString(Tail(s))

\* json.dumps(record): {"Team": "<escaped value>"}
json_dumps(record) ==
    <<"{", QUOTE, "Team", QUOTE, ":", " ", QUOTE>> \o EscapeString(record.Team) \o <<QUOTE, "}">>

\* "\n".join(lines)
RECURSIVE Join(_)
Join(lines) ==
    IF lines = << >> THEN << >>
    ELSE IF Len(lines) = 1 THEN lines[1]
    ELSE lines[1] \o <<NL>> \o Join(Tail(lines))

convert_trailing_separator(data) ==
    LET lines == [i \in 1..Len(data) |-> json_dumps(data[i]) \o <<NL>>]
    IN  IF lines = << >> THEN << >> ELSE Join(lines)

convert_to_line_delimited_json(data) ==
    Join([i \in 1..Len(data) |-> json_dumps(data[i])])

(* ----- reading a payload back: str.split("\n") and json.loads of a line *)
RECURSIVE SplitLines(_)
SplitLines(text) ==
    IF \A i \in 1..Len(text) : text[i] # NL THEN <<text>>
    ELSE LET k == CHOOSE i \in 1..Len(text) :
                     text[i] = NL /\ \A j \in 1..(i - 1) : text[j] # NL
         IN  <<SubSeq(text, 1, k - 1)>> \o SplitLines(SubSeq(text, k + 1, Len(text)))

RECURSIVE UnescapeString(_)
UnescapeString(s) ==
    IF s = << >> THEN << >>
    ELSE IF Head(s) = BSLASH /\ Len(s) >= 2
         THEN <<IF s[2] = "n" THEN NL ELSE s[2]>> \o UnescapeString(SubSeq(s, 3, Len(s)))
         ELSE <<Head(s)>> \o UnescapeString(Tail(s))

\* json.loads(line), NoneVal when the line is not one serialized record
json_loads(line) ==
    IF Len(line) >= 9
       /\ SubSeq(line, 1, 7) = <<"{", QUOTE, "Team", QUOTE, ":", " ", QUOTE>>
       /\ SubSeq(line, Len(line) - 1, Len(line)) = <<QUOTE, "}">>
    THEN Some([Team |-> UnescapeString(SubSeq(line, 8, Len(line) - 2))])
    ELSE NoneVal

CountNL(text) == Cardinality({i \in 1..Len(text) : text[i] = NL})

(* ------------------------------------------------------------ the state *)
VARIABLES
    pc,                  \* the step main() is about to execute
    api_key,             \* os.getenv("SPORTS_DATA_API_KEY")
    nba_endpoint,        \* os.getenv("NBA_ENDPOINT")
    bucketExists,        \* S3: the bucket bucket_name exists
    s3_object,           \* S3: body of raw-data/nba_player_data.jsonl, if any
    glue,                \* Glue: the catalog entries that exist
    jobs,                \* Athena: state of the QUERY_SETUP and QUERY_RUN jobs
    nba_data,            \* main: value returned by fetch_nba_players
    line_delimited_data, \* upload_data_to_s3: the serialized payload
    pollLog,             \* query_athena: the states returned by the polls so far
    athena_results,      \* main: value returned by query_athena
    report,              \* main: what the final print reported
    calls,               \* number of invocations of each remote operation
    result,              \* outcome of the most recent remote operation
    bucket_name,         \* configuration: the S3 bucket
    glue_database_name,  \* configuration: the Glue database
    glue_table_name,     \* configuration: the table that is queried
    put_request,         \* S3: the arguments of the put_object call, if made
    table_input,         \* Glue: the arguments of the create_table call, if made
    query_request,       \* Athena: the arguments of query_athena's submission, if made
    query_execution_id,  \* query_athena: the id its submission returned
    polled               \* Athena: the ids passed to get_query_execution/get_query_results

vars == <<pc, api_key, nba_endpoint, bucketExists, s3_object, glue, jobs, nba_data,
          line_delimited_data, pollLog, athena_results, report, calls, result,
          bucket_name, glue_database_name, glue_table_name, put_request, table_input,
          query_request, query_execution_id, polled>>

\* the module-level configuration, never assigned after start-up
config == <<bucket_name, glue_database_name, glue_table_name>>

Unset == "None"
Ops == {"create_bucket", "create_database", "requests_get", "put_object", "create_table",
        "start_query_setup", "start_query_run", "get_query_execution", "get_query_results"}

\* botocore.exceptions.ClientError: an error response of the service
ClientErrors == {"AlreadyExists", "ClientError"}
\* any other exception of a boto3 call (EndpointConnectionError, NoCredentialsError, ...)
BotoOutcomes == {"ok", "AlreadyExists", "ClientError", "BotoCoreError"}
\* requests exceptions that are not HTTPError
TransportFailures == {"ConnectionError", "Timeout", "MissingSchema", "JSONDecodeError"}

TerminalStates == {"SUCCEEDED", "FAILED", "CANCELLED"}
NonTerminalStates == {"QUEUED", "RUNNING"}

\* the record collections the data source returns in a pipeline run
FetchRecords == {[Team |-> <<"a">>], [Team |-> <<NL>>]}
FetchedCollections == SeqsUpTo(FetchRecords, MaxFetched)
\* the result sets get_query_results returns
RowSets == SeqsUpTo({"row"}, MaxRows)

Called(op) == [calls EXCEPT ![op] = @ + 1]

\* the request and job-id variables an action leaves alone
requests == <<put_request, table_input, query_request, query_execution_id, polled>>

\* athena_output_location = f"s3://{bucket_name}/athena-results/"
athena_output_location == <<"s3://", bucket_name, "/", "athena-results", "/">>

\* file_key = "raw-data/nba_player_data.jsonl"
file_key == <<"raw-data", "/", "nba_player_data.jsonl">>

table_location_bucket_root(bucket) == <<"s3://", bucket, "/">>

\* "Location": f"s3://{bucket_name}/raw-data/"
table_location(bucket) == <<"s3://", bucket, "/", "raw-data", "/">>

query_string_unquoted(database, table) ==
    <<"SELECT COUNT(*) FROM ", database, ".", table, ";">>

\* query = f'SELECT COUNT(*) FROM "{database}"."{table}";'
query_string(database, table) ==
    <<"SELECT COUNT(*) FROM ", QUOTE, database, QUOTE, ".", QUOTE, table, QUOTE, ";">>

\* what every run starts with, whatever the configuration
InitRun ==
    /\ put_request = NoneVal
    /\ table_input = NoneVal
    /\ query_request = NoneVal
    /\ query_execution_id = NoneVal
    /\ polled = {}

Init ==
    /\ pc = "BUCKET"
    /\ api_key \in {Unset, "key"}
    /\ nba_endpoint \in {Unset, "url"}
    /\ bucketExists \in BOOLEAN
    /\ s3_object \in {NoneVal} \cup
                     (IF bucketExists
                      THEN {Some(convert_to_line_delimited_json(<<[Team |-> <<"n">>]>>))}
                      ELSE {})
    /\ glue \in {{}, {"database", "table"}}
    /\ jobs = [j \in {"setup", "run"} |-> "NONE"]
    /\ nba_data = NoneVal
    /\ line_delimited_data = NoneVal
    /\ pollLog = << >>
    /\ athena_results = NoneVal
    /\ report = "none"
    /\ calls = [op \in Ops |-> 0]
    /\ result = "none"
    /\ bucket_name = "bai-xu-sports-analytics-data-lake"
    /\ glue_database_name = "xu-glue_nba_data_lake"
    /\ glue_table_name = "nba_players"
    /\ InitRun

(* ------------------------------------------------------- pipeline steps *)
\* main with configure_athena called before create_glue_table
StepAfterSetupBeforeTable(step) ==
    CASE step = "BUCKET" -> "DATABASE"
      [] step = "DATABASE" -> "FETCH"
      [] step = "FETCH" -> "UPLOAD"
      [] step = "UPLOAD" -> "QUERY_SETUP"
      [] step = "QUERY_SETUP" -> "TABLE"
      [] step = "TABLE" -> "QUERY_RUN"
      [] step = "QUERY_RUN" -> "DONE"

\* the order in which main calls the pipeline functions
StepAfter(step) ==
    CASE step = "BUCKET" -> "DATABASE"
      [] step = "DATABASE" -> "FETCH"
      [] step = "FETCH" -> "UPLOAD"
      [] step = "UPLOAD" -> "TABLE"
      [] step = "TABLE" -> "QUERY_SETUP"
      [] step = "QUERY_SETUP" -> "QUERY_RUN"
      [] step = "QUERY_RUN" -> "DONE"

\* create_s3_bucket calling create_bucket a second time after a ClientError
create_s3_bucket_retries ==
    /\ pc = "BUCKET"
    /\ \E r \in BotoOutcomes :
        /\ r = "ok" => ~bucketExists
        /\ r = "AlreadyExists" => bucketExists
        /\ result' = r
        /\ bucketExists' = (bucketExists \/ r = "ok")
        /\ pc' = IF r = "ok" THEN StepAfter("BUCKET")
                 ELSE IF r \in ClientErrors
                      THEN IF calls["create_bucket"] = 0 THEN "BUCKET" ELSE StepAfter("BUCKET")
                      ELSE "ABORTED"
    /\ calls' = Called("create_bucket")
    /\ UNCHANGED <<config, api_key, nba_endpoint, s3_object, glue, jobs, nba_data,
                   line_delimited_data, pollLog, athena_results, report>>
    /\ UNCHANGED requests

\* create_s3_bucket and the sleep that follows it: only ClientError is caught
create_s3_bucket ==
    /\ pc = "BUCKET"
    /\ \E r \in BotoOutcomes :
        /\ r = "ok" => ~bucketExists
        /\ r = "AlreadyExists" => bucketExists
        /\ result' = r
        /\ bucketExists' = (bucketExists \/ r = "ok")
        /\ pc' = IF r = "ok" \/ r \in ClientErrors THEN StepAfter("BUCKET") ELSE "ABORTED"
    /\ calls' = Called("create_bucket")
    /\ UNCHANGED <<config, api_key, nba_endpoint, s3_object, glue, jobs, nba_data,
                   line_delimited_data, pollLog, athena_results, report>>
    /\ UNCHANGED requests

\* create_glue_database: every Exception is caught
create_glue_database ==
    /\ pc = "DATABASE"
    /\ \E r \in BotoOutcomes :
        /\ r = "ok" => "database" \notin glue
        /\ r = "AlreadyExists" => "database" \in glue
        /\ result' = r
        /\ glue' = IF r = "ok" THEN glue \cup {"database"} ELSE glue
    /\ pc' = StepAfter("DATABASE")
    /\ calls' = Called("create_database")
    /\ UNCHANGED <<config, api_key, nba_endpoint, bucketExists, s3_object, jobs, nba_data,
                   line_delimited_data, pollLog, athena_results, report>>
    /\ UNCHANGED requests

\* fetch_nba_players and main's test of its value: only HTTPError is caught
fetch_nba_players ==
    /\ pc = "FETCH"
    /\ \E r \in {"ok", "HTTPError"} \cup TransportFailures, data \in FetchedCollections :
        /\ nba_endpoint = Unset => r = "MissingSchema"
        /\ r # "ok" => data = << >>
        /\ result' = r
        /\ nba_data' = IF r = "ok" THEN Some(data) ELSE NoneVal
        /\ pc' = IF r \in TransportFailures THEN "ABORTED"
                 ELSE IF Truthy(nba_data') THEN StepAfter("FETCH")
                 ELSE StepAfter(StepAfter("FETCH"))
    /\ calls' = Called("requests_get")
    /\ UNCHANGED <<config, api_key, nba_endpoint, bucketExists, s3_object, glue, jobs,
                   line_delimited_data, pollLog, athena_results, report>>
    /\ UNCHANGED requests

\* an upload that appends the payload to the object already stored at the key
upload_data_to_s3_appends ==
    /\ pc = "UPLOAD"
    /\ line_delimited_data' = Some(convert_to_line_delimited_json(nba_data[1]))
    /\ \E r \in BotoOutcomes \ {"AlreadyExists"} :
        /\ r = "ok" => bucketExists
        /\ result' = r
        /\ s3_object' = IF r # "ok" THEN s3_object
                        ELSE IF s3_object = NoneVal THEN line_delimited_data'
                        ELSE Some(s3_object[1] \o <<NL>> \o line_delimited_data'[1])
    /\ pc' = StepAfter("UPLOAD")
    /\ calls' = Called("put_object")
    /\ UNCHANGED <<config, api_key, nba_endpoint, bucketExists, glue, jobs, nba_data,
                   pollLog, athena_results, report>>
    /\ put_request' = Some([Bucket |-> bucket_name, Key |-> file_key,
                            Body |-> line_delimited_data'[1]])
    /\ UNCHANGED <<table_input, query_request, query_execution_id, polled>>

\* upload_data_to_s3: every Exception is caught
upload_data_to_s3 ==
    /\ pc = "UPLOAD"
    /\ line_delimited_data' = Some(convert_to_line_delimited_json(nba_data[1]))
    /\ \E r \in BotoOutcomes \ {"AlreadyExists"} :
        /\ r = "ok" => bucketExists
        /\ result' = r
        /\ s3_object' = IF r = "ok" THEN line_delimited_data' ELSE s3_object
    /\ pc' = StepAfter("UPLOAD")
    /\ calls' = Called("put_object")
    /\ UNCHANGED <<config, api_key, nba_endpoint, bucketExists, glue, jobs, nba_data,
                   pollLog, athena_results, report>>
    /\ put_request' = Some([Bucket |-> bucket_name, Key |-> file_key,
                            Body |-> line_delimited_data'[1]])
    /\ UNCHANGED <<table_input, query_request, query_execution_id, polled>>

\* create_glue_table: every Exception is caught
create_glue_table ==
    /\ pc = "TABLE"
    /\ \E r \in BotoOutcomes :
        /\ r = "ok" => "database" \in glue /\ "table" \notin glue
        /\ r = "AlreadyExists" => "table" \in glue
        /\ result' = r
        /\ glue' = IF r = "ok" THEN glue \cup {"table"} ELSE glue
    /\ pc' = StepAfter("TABLE")
    /\ calls' = Called("create_table")
    /\ UNCHANGED <<config, api_key, nba_endpoint, bucketExists, s3_object, jobs, nba_data,
                   line_delimited_data, pollLog, athena_results, report>>
    /\ table_input' = Some([DatabaseName |-> glue_database_name, Name |-> "nba_players",
                            Location |-> table_location(bucket_name)])
    /\ UNCHANGED <<put_request, query_request, query_execution_id, polled>>

\* configure_athena: submits a query and never looks at it again
configure_athena ==
    /\ pc = "QUERY_SETUP"
    /\ \E r \in BotoOutcomes \ {"AlreadyExists"} :
        /\ result' = r
        /\ jobs' = IF r = "ok" THEN [jobs EXCEPT !["setup"] = "QUEUED"] ELSE jobs
    /\ pc' = StepAfter("QUERY_SETUP")
    /\ calls' = Called("start_query_setup")
    /\ UNCHANGED <<config, api_key, nba_endpoint, bucketExists, s3_object, glue, nba_data,
                   line_delimited_data, pollLog, athena_results, report>>
    /\ UNCHANGED requests

(* --------------------------------------------------------- query_athena *)
\* the loop's exit test
IsTerminalOmitsSucceeded(state) == state \in {"FAILED", "CANCELLED"}

IsTerminal(state) == state \in {"SUCCEEDED", "FAILED", "CANCELLED"}

\* the test that selects get_query_results after the loop
FetchesResultsUnlessCancelled(state) == state # "CANCELLED"

FetchesResults(state) == state = "SUCCEEDED"

returned_id_of_setup(r) == IF r = "ok" THEN Some("setup") ELSE NoneVal

\* query_execution_id = response['QueryExecutionId'], the id of the job just submitted
returned_id(r) == IF r = "ok" THEN Some("run") ELSE NoneVal

\* start_query_execution of the count query: only ClientError is caught
query_athena_submit ==
    /\ pc = "QUERY_RUN"
    /\ \E r \in BotoOutcomes \ {"AlreadyExists"} :
        /\ result' = r
        /\ jobs' = IF r = "ok" THEN [jobs EXCEPT !["run"] = "QUEUED"] ELSE jobs
        /\ query_execution_id' = returned_id(r)
        /\ pc' = IF r = "ok" THEN "POLL" ELSE IF r \in ClientErrors THEN "REPORT" ELSE "ABORTED"
    /\ athena_results' = NoneVal
    /\ calls' = Called("start_query_run")
    /\ UNCHANGED <<config, api_key, nba_endpoint, bucketExists, s3_object, glue, nba_data,
                   line_delimited_data, pollLog, report>>
    /\ query_request' = Some([QueryString |-> query_string(glue_database_name, glue_table_name),
                              Database |-> glue_database_name,
                              OutputLocation |-> athena_output_location])
    /\ UNCHANGED <<put_request, table_input, polled>>

\* one get_query_execution of the loop and the tests on the state it returned
query_athena_poll ==
    /\ pc = "POLL"
    /\ \E r \in BotoOutcomes \ {"AlreadyExists"} :
        /\ r = "ok" /\ ~IsTerminal(jobs[query_execution_id[1]]) => Len(pollLog) < MaxPolls
        /\ result' = r
        /\ pollLog' = IF r = "ok" THEN Append(pollLog, jobs[query_execution_id[1]]) ELSE pollLog
        /\ pc' = IF r = "ok"
                 THEN IF IsTerminal(jobs[query_execution_id[1]])
                      THEN IF FetchesResults(jobs[query_execution_id[1]]) THEN "RESULTS" ELSE "REPORT"
                      ELSE "SLEEP"
                 ELSE IF r \in ClientErrors THEN "REPORT" ELSE "ABORTED"
    /\ athena_results' = NoneVal
    /\ calls' = Called("get_query_execution")
    /\ UNCHANGED <<config, api_key, nba_endpoint, bucketExists, s3_object, glue, jobs, nba_data,
                   line_delimited_data, report>>
    /\ polled' = polled \cup {query_execution_id[1]}
    /\ UNCHANGED <<put_request, table_input, query_request, query_execution_id>>

\* a wait that gives up on the job instead of polling again
query_athena_sleep_gives_up ==
    /\ pc = "SLEEP"
    /\ pc' = "REPORT"
    /\ UNCHANGED <<config, api_key, nba_endpoint, bucketExists, s3_object, glue, jobs, nba_data,
                   line_delimited_data, pollLog, athena_results, report, calls, result>>
    /\ UNCHANGED requests

\* time.sleep(1) between two polls
query_athena_sleep ==
    /\ pc = "SLEEP"
    /\ pc' = "POLL"
    /\ UNCHANGED <<config, api_key, nba_endpoint, bucketExists, s3_object, glue, jobs, nba_data,
                   line_delimited_data, pollLog, athena_results, report, calls, result>>
    /\ UNCHANGED requests

\* get_query_results after a SUCCEEDED poll
query_athena_results ==
    /\ pc = "RESULTS"
    /\ \E r \in BotoOutcomes \ {"AlreadyExists"}, rows \in RowSets :
        /\ r # "ok" => rows = << >>
        /\ result' = r
        /\ athena_results' = IF r = "ok" THEN Some(rows) ELSE NoneVal
        /\ pc' = IF r = "ok" \/ r \in ClientErrors THEN "REPORT" ELSE "ABORTED"
    /\ calls' = Called("get_query_results")
    /\ UNCHANGED <<config, api_key, nba_endpoint, bucketExists, s3_object, glue, jobs, nba_data,
                   line_delimited_data, pollLog, report>>
    /\ polled' = polled \cup {query_execution_id[1]}
    /\ UNCHANGED <<put_request, table_input, query_request, query_execution_id>>

\* main's report of the value query_athena returned
main_report ==
    /\ pc = "REPORT"
    /\ report' = IF Truthy(athena_results) THEN "results" ELSE "failed"
    /\ pc' = StepAfter("QUERY_RUN")
    /\ UNCHANGED <<config, api_key, nba_endpoint, bucketExists, s3_object, glue, jobs, nba_data,
                   line_delimited_data, pollLog, athena_results, calls, result>>
    /\ UNCHANGED requests

(* ----------------------------------------------------- the query service *)
\* Athena moves a submitted job towards a terminal state
AthenaProgress(j) ==
    /\ jobs[j] \in NonTerminalStates
    /\ \E s \in {"RUNNING"} \cup TerminalStates :
        /\ s = "RUNNING" => jobs[j] = "QUEUED"
        /\ s = "SUCCEEDED" => jobs[j] = "RUNNING"
        /\ jobs' = [jobs EXCEPT ![j] = s]
    /\ UNCHANGED <<config, pc, api_key, nba_endpoint, bucketExists, s3_object, glue, nba_data,
                   line_delimited_data, pollLog, athena_results, report, calls, result>>
    /\ UNCHANGED requests

MainStep ==
    \/ create_s3_bucket
    \/ create_glue_database
    \/ fetch_nba_players
    \/ upload_data_to_s3
    \/ create_glue_table
    \/ configure_athena
    \/ query_athena_submit
    \/ query_athena_poll
    \/ query_athena_sleep
    \/ query_athena_results
    \/ main_report

Next ==
    \/ MainStep
    \/ \E j \in {"setup", "run"} : AthenaProgress(j)

Spec == Init /\ [][Next]_vars

\* the process keeps running, and a submitted QUERY_RUN job reaches a terminal state
FairSpec == Spec /\ WF_vars(MainStep) /\ WF_vars(AthenaProgress("run"))

Halted == pc \in {"DONE", "ABORTED"}

(* ------------------------------------- the serializer on its own inputs *)
SerInit ==
    /\ pc = "SERIALIZE"
    /\ nba_data \in {Some(data) : data \in SeqsUpTo(Records, MaxRecords)}
    /\ line_delimited_data = NoneVal
    /\ api_key = "key"
    /\ nba_endpoint = "url"
    /\ bucketExists = FALSE
    /\ s3_object = NoneVal
    /\ glue = {}
    /\ jobs = [j \in {"setup", "run"} |-> "NONE"]
    /\ pollLog = << >>
    /\ athena_results = NoneVal
    /\ report = "none"
    /\ calls = [op \in Ops |-> 0]
    /\ result = "none"
    /\ bucket_name = "bai-xu-sports-analytics-data-lake"
    /\ glue_database_name = "xu-glue_nba_data_lake"
    /\ glue_table_name = "nba_players"
    /\ InitRun

\* one call of convert_to_line_delimited_json
Serialize ==
    /\ pc = "SERIALIZE"
    /\ line_delimited_data' = Some(convert_to_line_delimited_json(nba_data[1]))
    /\ pc' = "SERIALIZED"
    /\ UNCHANGED <<config, api_key, nba_endpoint, bucketExists, s3_object, glue, jobs, nba_data,
                   pollLog, athena_results, report, calls, result>>
    /\ UNCHANGED requests

SerNext == Serialize

SerSpec == SerInit /\ [][SerNext]_vars

(* ------------------------------- the pipeline under other configurations *)
\* <<bucket_name, glue_database_name, glue_table_name>>: the configuration of the
\* source, the one of the end-to-end scenario, and a mix of the two
Configurations ==
    {<<"bai-xu-sports-analytics-data-lake", "xu-glue_nba_data_lake", "nba_players">>,
     <<"demo-lake", "demo_db", "players">>,
     <<"demo-lake", "xu-glue_nba_data_lake", "nba_players">>}

ConfigInit ==
    /\ pc = "BUCKET"
    /\ api_key = "key"
    /\ nba_endpoint = "url"
    /\ bucketExists = FALSE
    /\ s3_object = NoneVal
    /\ glue = {}
    /\ jobs = [j \in {"setup", "run"} |-> "NONE"]
    /\ nba_data = NoneVal
    /\ line_delimited_data = NoneVal
    /\ pollLog = << >>
    /\ athena_results = NoneVal
    /\ report = "none"
    /\ calls = [op \in Ops |-> 0]
    /\ result = "none"
    /\ \E c \in Configurations :
        /\ bucket_name = c[1]
        /\ glue_database_name = c[2]
        /\ glue_table_name = c[3]
    /\ InitRun

ConfigSpec == ConfigInit /\ [][Next]_vars

(* ================================================================ claims *)
Last(seq) == seq[Len(seq)]

\* the pipeline state a control point belongs to
Stage(p) ==
    CASE p = "BUCKET" -> 1
      [] p = "DATABASE" -> 2
      [] p = "FETCH" -> 3
      [] p = "UPLOAD" -> 4
      [] p = "TABLE" -> 5
      [] p = "QUERY_SETUP" -> 6
      [] p \in {"QUERY_RUN", "POLL", "SLEEP", "RESULTS", "REPORT"} -> 7
      [] p = "DONE" -> 8
      [] OTHER -> 0

StageEntries == {"BUCKET", "DATABASE", "FETCH", "UPLOAD", "TABLE", "QUERY_SETUP",
                 "QUERY_RUN", "DONE"}

\* moves inside QUERY_RUN: submit, the polling loop, the results, the report
InsideQueryRun(p, q) ==
    <<p, q>> \in {<<"QUERY_RUN", "POLL">>, <<"QUERY_RUN", "REPORT">>, <<"POLL", "SLEEP">>,
                  <<"SLEEP", "POLL">>, <<"POLL", "RESULTS">>, <<"POLL", "REPORT">>,
                  <<"RESULTS", "REPORT">>}

OrderedMove(p, q) ==
    \/ q \in StageEntries /\ Stage(q) = Stage(p) + 1 /\ (Stage(p) = 7 => p = "REPORT")
    \/ p = "FETCH" /\ q = "TABLE"
    \/ InsideQueryRun(p, q)
    \/ q = "ABORTED" /\ p \notin {"DONE", "ABORTED"}

\* C1: every step of a run moves control from a pipeline state to the next one in the
\* order BUCKET, DATABASE, FETCH, UPLOAD, TABLE, QUERY_SETUP, QUERY_RUN, DONE (or ends the
\* run); the only state that may be passed over is UPLOAD, no state is entered again, and
\* no remote operation happens without control moving on.
C1_StepOrder ==
    [][(pc' = pc => calls' = calls) /\ (pc' # pc => OrderedMove(pc, pc'))]_vars

C1_Witness ==
    /\ pc = "DONE"
    /\ calls["put_object"] = 1
    /\ calls["create_table"] = 1
    /\ calls["get_query_results"] = 1

\* C2: every run eventually reaches DONE, whatever the outcome of each step, given that
\* a submitted query job eventually reaches a terminal state.
C2_EventuallyDone == <>(pc = "DONE")

\* C3: in a run that has ended, if the fetch was made and yielded no data then put_object
\* was never invoked and create_table and both query submissions were; if it yielded a
\* non-empty collection then put_object was invoked exactly once.
C3_NoDataSkipsOnlyUpload ==
    Halted /\ calls["requests_get"] = 1 =>
        IF Truthy(nba_data)
        THEN calls["put_object"] = 1
        ELSE /\ calls["put_object"] = 0
             /\ calls["create_table"] = 1
             /\ calls["start_query_setup"] = 1
             /\ calls["start_query_run"] = 1

FetchFailures == {"HTTPError"} \cup TransportFailures

\* C4: whenever the fetch request fails (a non-2xx status or a transport failure),
\* fetch_nba_players returns None instead of raising and main goes on to TABLE without
\* UPLOAD.
C4_FetchFailureIsNoData ==
    [][(pc = "FETCH" /\ result' \in FetchFailures) =>
           (nba_data' = NoneVal /\ pc' = "TABLE" /\ calls'["put_object"] = 0)]_vars

\* C5: when the API credential or the endpoint is missing, no remote operation is ever
\* invoked.
C5_NoRemoteCallWithoutConfig ==
    api_key = Unset \/ nba_endpoint = Unset => \A op \in Ops : calls[op] = 0

ProvisioningSteps == {"BUCKET", "UPLOAD", "DATABASE", "TABLE", "QUERY_SETUP"}
ProviderErrors == {"AlreadyExists", "ClientError", "BotoCoreError"}
OpOf(step) ==
    CASE step = "BUCKET" -> "create_bucket"
      [] step = "DATABASE" -> "create_database"
      [] step = "UPLOAD" -> "put_object"
      [] step = "TABLE" -> "create_table"
      [] step = "QUERY_SETUP" -> "start_query_setup"

\* C6: whenever a provisioning step (BUCKET, DATABASE, UPLOAD, TABLE, QUERY_SETUP) ends in
\* a provider error, control moves to the next pipeline step and the operation has been
\* attempted exactly once.
C6_ProviderErrorRecovered ==
    [][(pc \in ProvisioningSteps /\ calls' # calls /\ result' \in ProviderErrors) =>
           (pc' = StepAfter(pc) /\ calls'[OpOf(pc)] = 1)]_vars

PollSucceeded == pollLog # << >> /\ Last(pollLog) = "SUCCEEDED"

\* C7: no poll follows a poll that returned a terminal state; get_query_results is called
\* only after a poll returned SUCCEEDED; and once k non-terminal polls were followed by a
\* SUCCEEDED one, exactly k+1 polls were made, get_query_results is called exactly once
\* and query_athena returns the rows it fetched.
C7_PollUntilSucceeded ==
    /\ \A i \in 1..(Len(pollLog) - 1) : pollLog[i] \notin TerminalStates
    /\ calls["get_query_results"] >= 1 => PollSucceeded
    /\ PollSucceeded =>
        /\ calls["get_query_execution"] = Len(pollLog)
        /\ \/ pc = "RESULTS" /\ calls["get_query_results"] = 0
           \/ pc \in {"REPORT", "DONE", "ABORTED"} /\ calls["get_query_results"] = 1
        /\ pc \in {"REPORT", "DONE"} =>
               IF result = "ok" THEN athena_results \in {Some(rows) : rows \in RowSets}
               ELSE athena_results = NoneVal

C7_Witness ==
    /\ pc = "DONE"
    /\ pollLog = <<"QUEUED", "RUNNING", "SUCCEEDED">>
    /\ athena_results = Some(<<"row", "row">>)

PollFailed == pollLog # << >> /\ Last(pollLog) \in {"FAILED", "CANCELLED"}

\* C8: once a poll returned FAILED or CANCELLED, get_query_results is never called,
\* query_athena returns None, no results are reported, and the run reaches DONE with the
\* failed-query report.
C8_FailedQueryReportsNothing ==
    /\ [](PollFailed =>
            /\ calls["get_query_results"] = 0
            /\ athena_results = NoneVal
            /\ pc \in {"REPORT", "DONE"}
            /\ report # "results")
    /\ (PollFailed ~> (pc = "DONE" /\ report = "failed"))

C8_Witness ==
    /\ pc = "DONE"
    /\ report = "failed"
    /\ pollLog = <<"QUEUED", "CANCELLED">>

\* C9: every remote operation other than the state poll is invoked at most once in a run.
C9_AtMostOnce ==
    \A op \in Ops \ {"get_query_execution"} : calls[op] <= 1

C9_Witness ==
    /\ pc = "DONE"
    /\ calls["get_query_execution"] >= 2
    /\ \A op \in Ops \ {"get_query_execution"} : calls[op] = 1

\* C10: the payload of N records has N lines in input order, separated by N-1 newlines
\* with none trailing; line i is json.dumps of record i and parses back to record i; the
\* payload of no records is empty.
C10_LineDelimited ==
    pc = "SERIALIZED" =>
        LET data == nba_data[1]
            text == line_delimited_data[1]
            lines == SplitLines(text)
        IN  IF data = << >> THEN text = << >>
            ELSE /\ Len(lines) = Len(data)
                 /\ CountNL(text) = Len(data) - 1
                 /\ Last(text) # NL
                 /\ \A i \in 1..Len(data) :
                        /\ lines[i] = json_dumps(data[i])
                        /\ json_loads(lines[i]) = Some(data[i])

C10_Witness ==
    /\ pc = "SERIALIZED"
    /\ nba_data = Some(<<[Team |-> <<NL, BSLASH>>], [Team |-> <<"n", QUOTE>>]>>)

C10_WitnessEmpty ==
    /\ pc = "SERIALIZED"
    /\ nba_data = Some(<< >>)
    /\ line_delimited_data = Some(<< >>)

BothLocationsUsed == put_request # NoneVal /\ table_input # NoneVal

\* C11 as stated: the location in the table definition equals the location (container,
\* key) the upload writes to.
C11_SameLocation ==
    BothLocationsUsed =>
        table_input[1].Location = <<"s3://", put_request[1].Bucket, "/">> \o put_request[1].Key

\* C11: the upload writes into the configured container, and the location in the table
\* definition is that container with the key path that directly contains the uploaded
\* object: the object's location is the table's location followed by the file name.
C11_ObjectUnderTableLocation ==
    BothLocationsUsed =>
        /\ put_request[1].Bucket = bucket_name
        /\ <<"s3://", put_request[1].Bucket, "/">> \o put_request[1].Key
               = table_input[1].Location \o <<"nba_player_data.jsonl">>

C11_Witness ==
    /\ pc = "DONE"
    /\ bucket_name = "demo-lake"
    /\ BothLocationsUsed
    /\ s3_object = Some(put_request[1].Body)

\* C12: QUERY_RUN submits at most one query, and the one it submits has the text
\* SELECT COUNT(*) FROM "D"."T"; with execution context database D and the configured
\* output location, for the configured database D and table T.
C12_CountQuery ==
    /\ calls["start_query_run"] <= 1
    /\ calls["start_query_run"] = 0 => query_request = NoneVal
    /\ calls["start_query_run"] = 1 =>
           query_request = Some([QueryString |-> <<"SELECT COUNT(*) FROM ", QUOTE,
                                                   glue_database_name, QUOTE, ".", QUOTE,
                                                   glue_table_name, QUOTE, ";">>,
                                 Database |-> glue_database_name,
                                 OutputLocation |-> athena_output_location])

C12_Witness ==
    /\ calls["start_query_run"] = 1
    /\ bucket_name = "demo-lake"
    /\ query_request = Some([QueryString |-> <<"SELECT COUNT(*) FROM ", QUOTE, "demo_db",
                                               QUOTE, ".", QUOTE, "players", QUOTE, ";">>,
                             Database |-> "demo_db",
                             OutputLocation |-> <<"s3://", "demo-lake", "/",
                                                  "athena-results", "/">>])

BothTablesNamed == table_input # NoneVal /\ query_request # NoneVal

\* C16: the (database, table) pair that create_glue_table registers is the pair named in
\* the query that QUERY_RUN submits.
C16_SameTable ==
    BothTablesNamed =>
        query_request[1].QueryString =
            <<"SELECT COUNT(*) FROM ", QUOTE, table_input[1].DatabaseName, QUOTE, ".",
              QUOTE, table_input[1].Name, QUOTE, ";">>

InPollLoop == pc \in {"POLL", "SLEEP"}

\* C13 as stated: the polling loop is left only by a poll that returned SUCCEEDED, FAILED
\* or CANCELLED.
C13_LoopEndsOnlyOnTerminalPoll ==
    [][(InPollLoop /\ ~InPollLoop') =>
           (pollLog' # pollLog /\ Last(pollLog') \in TerminalStates)]_vars

\* what one get_query_execution may do to the loop
PollOutcome ==
    \/ /\ result' = "ok"
       /\ Len(pollLog') = Len(pollLog) + 1
       /\ SubSeq(pollLog', 1, Len(pollLog)) = pollLog
       /\ IF Last(pollLog') \in TerminalStates
          THEN pc' \in {"RESULTS", "REPORT"}
          ELSE pc' = "SLEEP"
    \/ /\ result' \in ProviderErrors
       /\ pollLog' = pollLog
       /\ pc' \in {"REPORT", "ABORTED"}

\* C13: a poll that returns a non-terminal state is followed by one wait and then another
\* poll; the loop is left only by a poll that returned SUCCEEDED, FAILED or CANCELLED or by
\* a get_query_execution that raised; and once the job reaches a terminal state the loop
\* is left.
C13_PollLoop ==
    /\ [][/\ (pc = "POLL" /\ pc' # pc) => (calls' # calls /\ PollOutcome)
          /\ (pc = "SLEEP" /\ pc' # pc) => (pc' = "POLL" /\ calls' = calls /\ pollLog' = pollLog)
         ]_vars
    /\ (InPollLoop ~> ~InPollLoop)

C13_Witness ==
    /\ pc = "RESULTS"
    /\ pollLog = <<"RUNNING", "RUNNING", "SUCCEEDED">>
    /\ calls["get_query_execution"] = 3

\* the payload parses back, line by line, to the records of the collection
PayloadOf(text, data) ==
    LET lines == SplitLines(text)
    IN  /\ Len(lines) = Len(data)
        /\ \A i \in 1..Len(data) : json_loads(lines[i]) = Some(data[i])

\* C14: UPLOAD makes one put_object per run, to the configured container at the key
\* raw-data/nba_player_data.jsonl, with the serialization of the fetched collection as its
\* body; when the write succeeds the object at the key is exactly that body, whatever
\* was stored there before, and nothing else changes the object.
C14_UploadWritesPayload ==
    [][/\ s3_object' # s3_object => pc = "UPLOAD"
       /\ (pc = "UPLOAD" /\ calls' # calls) =>
              /\ calls'["put_object"] = 1
              /\ put_request' # NoneVal
              /\ put_request'[1].Bucket = bucket_name
              /\ put_request'[1].Key = <<"raw-data", "/", "nba_player_data.jsonl">>
              /\ PayloadOf(put_request'[1].Body, nba_data[1])
              /\ s3_object' = IF result' = "ok" THEN Some(put_request'[1].Body) ELSE s3_object
      ]_vars

C14_Witness ==
    /\ pc = "TABLE"
    /\ result = "ok"
    /\ calls["put_object"] = 1
    /\ calls["create_bucket"] = 1
    /\ Len(nba_data[1]) = 2
    /\ s3_object = Some(put_request[1].Body)

PollsMade == calls["get_query_execution"] + calls["get_query_results"]

\* C15: get_query_execution and get_query_results are called only after the QUERY_RUN
\* submission succeeded and only with the id that submission returned, never with the id
\* of the QUERY_SETUP job; when the QUERY_RUN submission failed neither is called and no
\* results are returned or reported.
C15_PollsOnlyTheSubmittedJob ==
    /\ polled \subseteq {"run"}
    /\ PollsMade > 0 =>
           /\ calls["start_query_run"] = 1
           /\ query_execution_id = Some("run")
           /\ jobs["run"] # "NONE"
           /\ polled = {"run"}
    /\ query_execution_id = NoneVal =>
           /\ PollsMade = 0
           /\ athena_results = NoneVal
           /\ report # "results"

\* the count query was submitted, polled and its results fetched while the QUERY_SETUP
\* job had not reached a terminal state
C15_Witness ==
    /\ jobs["setup"] \in NonTerminalStates
    /\ polled = {"run"}
    /\ calls["get_query_results"] = 1
    /\ athena_results # NoneVal

\* the QUERY_RUN submission failed and the run ended without a poll
C15_WitnessSubmitFailed ==
    /\ pc = "DONE"
    /\ calls["start_query_run"] = 1
    /\ query_execution_id = NoneVal
    /\ PollsMade = 0

\* C17: a run in which QUERY_RUN was started ends in DONE, having reported results exactly
\* when query_athena returned a non-empty sequence of rows and a failed query otherwise.
C17_ReportMatchesResults ==
    Halted /\ calls["start_query_run"] = 1 =>
        /\ pc = "DONE"
        /\ report = IF Truthy(athena_results) THEN "results" ELSE "failed"
====
